---- MODULE Spec2Model ----
(***************************************************************************)
(* Model of convert_to_logmacro.py: the print() -> #log... migration of a  *)
(* tree of Swift files.  A file's text is a sequence of tokens; a token is *)
(* one character or one fixed word ("print", "import Foundation", an emoji *)
(* marker, a keyword) that the script's regular expressions only ever      *)
(* match or emit as a whole.                                               *)
(***************************************************************************)
EXTENDS Naturals, Sequences, FiniteSets

\* ---------------------------------------------------------------- tokens
P     == "print"
LP    == "("
RP    == ")"
Q     == "dquote"             \* the character "
BS    == "backslash"          \* the character \
NL    == "newline"
COMMA == ","
X     == "x"                  \* any other character
ImpF  == "import Foundation"
ImpL  == "import LogMacro"
LI    == "#logInfo"
LW    == "#logWarning"
LE    == "#logError"
LD    == "#logDebug"
\* the markers of the rule table, in the order of the table
OK    == "U+2705"             \* white check mark
PARTY == "U+1F389"
CHART == "U+1F4CA"
MAG   == "U+1F50D"
FAIL  == "U+274C"             \* cross mark
WARN  == "U+26A0 U+FE0F"      \* warning sign with its variation selector
SIREN == "U+1F6A8"
ART   == "U+1F3A8"
CYCLE == "U+1F504"
BULB  == "U+1F4A1"
KW1   == "U+C644 U+B8CC"      \* "completed"
KW2   == "U+C2DC U+C791"      \* "start"
KW3   == "U+C0DD U+C131"      \* "creation"

LogMacros == {LI, LW, LE, LD}

\* ------------------------------------------------------- regular expressions
\* The least index k >= j with t[k] = c, or 0.
First(t, c, j) ==
  LET S == {k \in j..Len(t) : t[k] = c}
  IN  IF S = {} THEN 0 ELSE CHOOSE k \in S : \A l \in S : k <= l

At(t, i, w) ==
  /\ i + Len(w) - 1 <= Len(t)
  /\ \A k \in 1..Len(w) : t[i + k - 1] = w[k]

\* A rule of the table: kind is the shape of its pattern,
\*   "lead"   print\("M([^"]*?)"\)          -> OUT("T\1")
\*   "kw"     print\("([^"]*?)M([^"]*?)"\)  -> OUT("\1T\2")
\*   "triple" print\("""                    -> OUT("""
\*   "plain"  print\("([^"]*?)"\)           -> OUT("\1")
\*   "any"    print\(([^)]+?)\)             -> OUT(\1)
\* mark is M, the marker of the pattern; tmark is T, the marker the replacement
\* template writes; out is the macro the template writes.
Rule(kind, mark, out, tmark) ==
  [kind |-> kind, mark |-> mark, out |-> out, tmark |-> tmark]

\* The closing quote of the literal opened at i+2: [^"]* cannot cross a quote,
\* so the first quote after the opening one is the only candidate.
CloseQ(t, i, from) ==
  LET q == First(t, Q, from)
  IN  IF q # 0 /\ q + 1 <= Len(t) /\ t[q + 1] = RP THEN q ELSE 0

\* The index of the last token of the match of rule r that starts at i, or 0.
MatchEnd(r, t, i) ==
  CASE r.kind = "lead" ->
         IF At(t, i, <<P, LP, Q, r.mark>>)
         THEN LET q == CloseQ(t, i, i + 4) IN IF q = 0 THEN 0 ELSE q + 1
         ELSE 0
    [] r.kind = "kw" ->
         IF At(t, i, <<P, LP, Q>>)
         THEN LET q == CloseQ(t, i, i + 3)
              IN  IF q # 0 /\ \E j \in (i + 3)..(q - 1) : t[j] = r.mark
                  THEN q + 1 ELSE 0
         ELSE 0
    [] r.kind = "triple" ->
         IF At(t, i, <<P, LP, Q, Q, Q>>) THEN i + 4 ELSE 0
    [] r.kind = "plain" ->
         IF At(t, i, <<P, LP, Q>>)
         THEN LET q == CloseQ(t, i, i + 3) IN IF q = 0 THEN 0 ELSE q + 1
         ELSE 0
    [] r.kind = "any" ->
         IF At(t, i, <<P, LP>>) /\ i + 2 <= Len(t) /\ t[i + 2] # RP
         THEN First(t, RP, i + 3)
         ELSE 0

\* The replacement template of rule r expanded for its match t[i..e].
Expand(r, t, i, e) ==
  CASE r.kind = "lead" ->
         <<r.out, LP, Q, r.tmark>> \o SubSeq(t, i + 4, e - 2) \o <<Q, RP>>
    [] r.kind = "kw" ->
         LET j == First(t, r.mark, i + 3)     \* lazy group 1: the first keyword
         IN  <<r.out, LP, Q>> \o SubSeq(t, i + 3, j - 1) \o <<r.tmark>>
               \o SubSeq(t, j + 1, e - 2) \o <<Q, RP>>
    [] r.kind = "triple" -> <<r.out, LP, Q, Q, Q>>
    [] r.kind = "plain" ->
         <<r.out, LP, Q>> \o SubSeq(t, i + 3, e - 2) \o <<Q, RP>>
    [] r.kind = "any" ->
         <<r.out, LP>> \o SubSeq(t, i + 2, e - 1) \o <<RP>>

\* re.sub(pattern, replacement, t): the non-overlapping matches, leftmost first,
\* the scan resuming after each match.
RECURSIVE SubFrom(_, _, _)
SubFrom(r, t, i) ==
  IF i > Len(t) THEN << >>
  ELSE LET e == MatchEnd(r, t, i)
       IN  IF e = 0 THEN <<t[i]>> \o SubFrom(r, t, i + 1)
           ELSE Expand(r, t, i, e) \o SubFrom(r, t, e + 1)

Sub(r, t) == SubFrom(r, t, 1)

\* The table with its first rule missing.
conversionsNoSuccess ==
  << Rule("lead", PARTY, LI, PARTY), Rule("lead", CHART, LI, CHART),
     Rule("lead", MAG, LI, MAG),     Rule("lead", FAIL, LE, FAIL),
     Rule("lead", WARN, LW, WARN),   Rule("lead", SIREN, LE, SIREN),
     Rule("lead", ART, LI, ART),     Rule("lead", CYCLE, LI, CYCLE),
     Rule("lead", BULB, LI, BULB),
     Rule("kw", KW1, LI, KW1), Rule("kw", KW2, LI, KW2), Rule("kw", KW3, LI, KW3),
     Rule("triple", Q, LI, Q),
     Rule("plain", Q, LD, Q),
     Rule("any", Q, LD, Q) >>

\* The table with a marker mistyped in one replacement template.
conversionsTypo ==
  << Rule("lead", OK, LI, PARTY) >> \o conversionsNoSuccess

conversions ==
  << Rule("lead", OK, LI, OK),       Rule("lead", PARTY, LI, PARTY),
     Rule("lead", CHART, LI, CHART), Rule("lead", MAG, LI, MAG),
     Rule("lead", FAIL, LE, FAIL),   Rule("lead", WARN, LW, WARN),
     Rule("lead", SIREN, LE, SIREN), Rule("lead", ART, LI, ART),
     Rule("lead", CYCLE, LI, CYCLE), Rule("lead", BULB, LI, BULB),
     Rule("kw", KW1, LI, KW1), Rule("kw", KW2, LI, KW2), Rule("kw", KW3, LI, KW3),
     Rule("triple", Q, LI, Q),
     Rule("plain", Q, LD, Q),
     Rule("any", Q, LD, Q) >>

\* for pattern, replacement in conversions: content = re.sub(...)
RECURSIVE ApplyFrom(_, _, _)
ApplyFrom(rules, k, t) ==
  IF k > Len(rules) THEN t ELSE ApplyFrom(rules, k + 1, Sub(rules[k], t))

ApplyConversions(t) == ApplyFrom(conversions, 1, t)

\* re.sub(r'(import Foundation\n)', r'\1import LogMacro\n', t)
RECURSIVE ImportSubFrom(_, _)
ImportSubFrom(t, i) ==
  IF i > Len(t) THEN << >>
  ELSE IF At(t, i, <<ImpF, NL>>)
       THEN <<ImpF, NL, ImpL, NL>> \o ImportSubFrom(t, i + 2)
       ELSE <<t[i]>> \o ImportSubFrom(t, i + 1)

HasLogMacro(t) == \E i \in 1..Len(t) : t[i] = ImpL

AddImport(t) == IF ~HasLogMacro(t) THEN ImportSubFrom(t, 1) ELSE t

\* The comparison left out: every call writes.
ChangedAlways(c, o) == TRUE

\* if content != original_content
Changed(c, o) == c # o

\* ------------------------------------------------------------ the file tree
\* os.walk(sources_dir), in the order it yields the files.
Walk == <<"A.swift", "notes.md", "B.swift">>
Files == {Walk[k] : k \in 1..Len(Walk)}
\* file.endswith('.swift')
IsSwift(f) == f \in {"A.swift", "B.swift"}
SwiftFiles == {f \in Files : IsSwift(f)}

\* A file on disk: its text, or bytes that are not UTF-8.
TextFile(t) == [decodable |-> TRUE, text |-> t]
Undecodable == [decodable |-> FALSE, text |-> << >>]

\* ------------------------------------------------------------------ inputs
MaxMsg == 2        \* fragments in the argument of a print call
MaxHeader == 2     \* lines before the first print call

\* Fragments of a message: a plain character, four markers, an interpolation
\* \(x), an escaped quote, a closing parenthesis, the characters print(x).
Atoms ==
  { <<X>>, <<OK>>, <<WARN>>, <<FAIL>>, <<KW1>>, <<BS, LP, X, RP>>, <<BS, Q>>,
    <<RP>>, <<P, LP, X, RP>> }

RECURSIVE Msgs(_)
Msgs(n) ==
  IF n = 0 THEN {<< >>}
  ELSE LET S == Msgs(n - 1) IN S \cup {m \o a : m \in S, a \in Atoms}

\* print("m")
Call(m) == <<P, LP, Q>> \o m \o <<Q, RP>>

Bodies(m) ==
  { Call(m),                                        \* print("m")
    <<P, LP>> \o Call(m) \o <<RP>>,                 \* print(print("m"))
    <<P, LP, Q>> \o m \o <<Q, COMMA, X, RP>>,       \* print("m", x)
    <<P, LP, Q, Q, Q>> \o m \o <<Q, Q, Q, RP>>,     \* print("""m""")
    <<P, LP>> \o m \o <<RP>>,                       \* print(m)
    <<P, LP, Q, KW1, NL>> \o Call(m) }              \* an unclosed print(" before

HeaderLines == { <<ImpF, NL>>, <<ImpL, NL>>, <<X, NL>> }

RECURSIVE Headers(_)
Headers(n) ==
  IF n = 0 THEN {<< >>}
  ELSE LET S == Headers(n - 1) IN S \cup {h \o l : h \in S, l \in HeaderLines}

Texts ==
  UNION {Bodies(m) : m \in Msgs(MaxMsg)}
    \cup {h \o b : h \in Headers(MaxHeader), b \in {<< >>, <<ImpF>>, Call(<<X>>)}}

SmallTexts == { Call(<<X>>) }

\* ------------------------------------------------------------------- state
VARIABLES
  rootExists,        \* os.path.exists(sources_dir)
  disk,              \* the files of the tree
  pc,                \* where main() is
  idx,               \* the position of the walk in Walk
  file_path,         \* convert_file_to_logmacro: file_path
  content,           \* convert_file_to_logmacro: content
  original_content,  \* convert_file_to_logmacro: original_content
  opened,            \* times the current call opened its file for writing
  ret,               \* what the last call returned: "none", "True", "False"
  converted_files,   \* main: converted_files
  summary,           \* whether the summary lines have been printed
  migrated,          \* history: the files a call has returned for since the start
  again              \* history: the current call's file was in migrated when read

vars == <<rootExists, disk, pc, idx, file_path, content, original_content, opened, ret,
          converted_files, summary, migrated, again>>

file == Walk[idx]

Init ==
  /\ rootExists \in BOOLEAN
  /\ \E rich \in SwiftFiles :
       \E big \in {TextFile(t) : t \in Texts} \cup {Undecodable} :
         \E small \in {TextFile(t) : t \in SmallTexts} \cup {Undecodable} :
           disk = [f \in Files |->
                     IF f = rich THEN big
                     ELSE IF IsSwift(f) THEN small
                     ELSE TextFile(Call(<<X>>))]
  /\ pc = "main"
  /\ idx = 1
  /\ file_path = Walk[1]
  /\ content = << >>
  /\ original_content = << >>
  /\ opened = 0
  /\ ret = "none"
  /\ converted_files = << >>
  /\ summary = FALSE
  /\ migrated = {}
  /\ again = FALSE

\* main(): the directory is missing, print and return.
RootMissing ==
  /\ pc = "main"
  /\ ~rootExists
  /\ pc' = "done"
  /\ UNCHANGED <<rootExists, file_path, disk, idx, content, original_content, opened, ret,
                 converted_files, summary, migrated, again>>

\* main(): converted_files = [] and the walk begins.
StartWalk ==
  /\ pc = "main"
  /\ rootExists
  /\ pc' = "walk"
  /\ idx' = 1
  /\ converted_files' = << >>
  /\ UNCHANGED <<rootExists, file_path, disk, content, original_content, opened, ret,
                 summary, migrated, again>>

\* The walk passes a file that is no .swift file.
SkipFile ==
  /\ pc = "walk"
  /\ idx <= Len(Walk)
  /\ ~IsSwift(file)
  /\ idx' = idx + 1
  /\ UNCHANGED <<rootExists, file_path, disk, pc, content, original_content, opened, ret,
                 converted_files, summary, migrated, again>>

\* convert_file_to_logmacro(file_path): open and read as UTF-8.
ReadFile ==
  /\ pc = "walk"
  /\ idx <= Len(Walk)
  /\ IsSwift(file)
  /\ disk[file].decodable
  /\ content' = disk[file].text
  /\ original_content' = disk[file].text
  /\ opened' = 0
  /\ ret' = "none"
  /\ file_path' = file
  /\ again' = (file \in migrated)
  /\ pc' = "import"
  /\ UNCHANGED <<rootExists, disk, idx, converted_files, summary, migrated>>

\* f.read() raises UnicodeDecodeError; nothing catches it.
ReadFails ==
  /\ pc = "walk"
  /\ idx <= Len(Walk)
  /\ IsSwift(file)
  /\ ~disk[file].decodable
  /\ file_path' = file
  /\ ret' = "none"
  /\ pc' = "crashed"
  /\ UNCHANGED <<rootExists, disk, idx, content, original_content, opened,
                 converted_files, summary, migrated, again>>

\* Step 1: the import.
Import ==
  /\ pc = "import"
  /\ content' = AddImport(content)
  /\ pc' = "convert"
  /\ UNCHANGED <<rootExists, file_path, disk, idx, original_content, opened, ret,
                 converted_files, summary, migrated, again>>

\* Step 2: every substitution of the table, in order.
Convert ==
  /\ pc = "convert"
  /\ content' = ApplyConversions(content)
  /\ pc' = "compare"
  /\ UNCHANGED <<rootExists, file_path, disk, idx, original_content, opened, ret,
                 converted_files, summary, migrated, again>>

\* The content changed: the file is written, the call returns True and main
\* appends the path.
WriteBack ==
  /\ pc = "compare"
  /\ Changed(content, original_content)
  /\ opened' = opened + 1
  /\ disk' = [disk EXCEPT ![file_path] = TextFile(content)]
  /\ ret' = "True"
  /\ converted_files' = Append(converted_files, file_path)
  /\ migrated' = migrated \cup {file_path}
  /\ idx' = idx + 1
  /\ pc' = "walk"
  /\ UNCHANGED <<rootExists, file_path, content, original_content, summary, again>>

\* The content changed and the write raises OSError: at open (the file is as it
\* was) or after open truncated the file; nothing catches it.
WriteFails ==
  /\ pc = "compare"
  /\ Changed(content, original_content)
  /\ opened' = opened + 1
  /\ \E left \in {original_content, << >>} :
       disk' = [disk EXCEPT ![file_path] = TextFile(left)]
  /\ pc' = "crashed"
  /\ UNCHANGED <<rootExists, file_path, idx, content, original_content, ret,
                 converted_files, summary, migrated, again>>

\* The content is as read: return False.
ReturnFalse ==
  /\ pc = "compare"
  /\ ~Changed(content, original_content)
  /\ ret' = "False"
  /\ migrated' = migrated \cup {file_path}
  /\ idx' = idx + 1
  /\ pc' = "walk"
  /\ UNCHANGED <<rootExists, file_path, disk, content, original_content, opened,
                 converted_files, summary, again>>

\* The walk is over: the summary is printed.
Summary ==
  /\ pc = "walk"
  /\ idx > Len(Walk)
  /\ summary' = TRUE
  /\ pc' = "done"
  /\ UNCHANGED <<rootExists, file_path, disk, idx, content, original_content, opened, ret,
                 converted_files, migrated, again>>

\* The script is run again on the same tree after a run that ended.
RunAgain ==
  /\ pc = "done"
  /\ rootExists
  /\ pc' = "main"
  /\ idx' = 1
  /\ content' = << >>
  /\ original_content' = << >>
  /\ opened' = 0
  /\ ret' = "none"
  /\ converted_files' = << >>
  /\ summary' = FALSE
  /\ again' = FALSE
  /\ file_path' = Walk[1]
  /\ UNCHANGED <<rootExists, disk, migrated>>

Next ==
  \/ RootMissing
  \/ StartWalk
  \/ SkipFile
  \/ ReadFile
  \/ ReadFails
  \/ Import
  \/ Convert
  \/ WriteBack
  \/ WriteFails
  \/ ReturnFalse
  \/ Summary
  \/ RunAgain

Spec == Init /\ [][Next]_vars

\* ------------------------------------------------------------------ claims
\* The text after step 1 of the current call: the rewrite passes of step 2 keep
\* every token's position, so a call site of Step1 is at the same index in
\* content once Convert has run.
Step1 == AddImport(original_content)
Converted == pc = "compare"

\* A print call at i whose argument is one double-quoted literal with no quote
\* character in it: print(" ... ") up to the first quote, which ) follows.
LiteralCall(t, i) == At(t, i, <<P, LP, Q>>) /\ CloseQ(t, i, i + 3) # 0
Message(t, i) == SubSeq(t, i + 3, CloseQ(t, i, i + 3) - 1)
Has(m, c) == \E j \in 1..Len(m) : m[j] = c
Interpolated(m) == \E j \in 1..(Len(m) - 1) : m[j] = BS /\ m[j + 1] = LP
\* print("...", ...): a literal followed by a comma
MultiArgCall(t, i) ==
  /\ At(t, i, <<P, LP, Q>>)
  /\ LET q == First(t, Q, i + 3) IN q # 0 /\ q + 1 <= Len(t) /\ t[q + 1] = COMMA
\* print("...\") ...: an escaped quote that ) follows
AmbiguousCall(t, i) ==
  /\ LiteralCall(t, i)
  /\ Len(Message(t, i)) > 0
  /\ Message(t, i)[Len(Message(t, i))] = BS

\* C1 (as claimed): a call on a file that an earlier call already migrated
\* leaves the content as read and returns False, for every text.
C1_Idempotent ==
  /\ (Converted /\ again) => content = original_content
  /\ again => ret # "True"

\* C2 (as claimed): every print call with an interpolated literal or with more
\* than one argument becomes #logDebug, its argument list kept verbatim.
C2_FallbackIsDebug ==
  Converted =>
    \A i \in 1..Len(Step1) :
      /\ (LiteralCall(Step1, i) /\ Interpolated(Message(Step1, i))) =>
           /\ content[i] = LD
           /\ SubSeq(content, i + 1, CloseQ(Step1, i, i + 3) + 1)
                = SubSeq(Step1, i + 1, CloseQ(Step1, i, i + 3) + 1)
      /\ MultiArgCall(Step1, i) => content[i] = LD

\* C3 (as claimed): a literal message that contains both the success marker and
\* the caution marker, wherever they are, becomes #logInfo.
C3_SuccessWinsAnywhere ==
  Converted =>
    \A i \in 1..Len(Step1) :
      (LiteralCall(Step1, i) /\ Has(Message(Step1, i), OK)
         /\ Has(Message(Step1, i), WARN)) => content[i] = LI

\* C3 (amended): a literal message without a quote character that begins with
\* the success marker and also contains the caution marker becomes #logInfo.
C3_LeadingSuccessWins ==
  Converted =>
    \A i \in 1..Len(Step1) :
      (LiteralCall(Step1, i) /\ At(Step1, i + 3, <<OK>>)
         /\ Has(Message(Step1, i), WARN)) => content[i] = LI

C3_Witness ==
  /\ Converted
  /\ \E i \in 1..Len(Step1) :
       /\ LiteralCall(Step1, i)
       /\ Message(Step1, i) = <<OK, WARN>>
       /\ content[i] = LI

\* C4 (as claimed): the literal of a print call with one plain literal argument
\* is in the final text exactly as it was, whatever the later rules do.
C4_PayloadPreserved ==
  Converted =>
    \A i \in 1..Len(Step1) :
      (LiteralCall(Step1, i) /\ ~Has(Message(Step1, i), BS)) =>
        SubSeq(content, i + 2, CloseQ(Step1, i, i + 3))
          = SubSeq(Step1, i + 2, CloseQ(Step1, i, i + 3))

\* An anchor line: import Foundation and its line break.
Anchors(t) == {i \in 1..Len(t) : At(t, i, <<ImpF, NL>>)}
Count(t, c) == Cardinality({i \in 1..Len(t) : t[i] = c})

\* C5 (as claimed): step 1 on a text without the declaration and with one or
\* more anchor lines yields exactly one declaration, right after the first
\* anchor line, also when run again on its output; without an anchor line the
\* text is left as it was.
C5_OneImportAfterFirstAnchor ==
  (pc = "convert" /\ ~HasLogMacro(original_content)) =>
    IF Anchors(original_content) = {}
    THEN content = original_content
    ELSE LET a == CHOOSE i \in Anchors(original_content) :
                    \A j \in Anchors(original_content) : i <= j
         IN  /\ content = SubSeq(original_content, 1, a + 1) \o <<ImpL, NL>>
                            \o SubSeq(original_content, a + 2, Len(original_content))
             /\ Count(content, ImpL) = 1
             /\ AddImport(content) = content

\* C6: the file is opened for writing only when the content differs from what
\* was read, and at most once; a call returns True exactly when it differs, with
\* the new text on disk, and False exactly when it does not, the file untouched.
C6_WriteIffChanged ==
  /\ opened <= 1
  /\ opened = 1 => content # original_content
  /\ ret = "True" =>
       /\ content # original_content
       /\ opened = 1
       /\ disk[file_path] = TextFile(content)
  /\ ret = "False" =>
       /\ content = original_content
       /\ opened = 0
       /\ disk[file_path] = TextFile(original_content)
  /\ (pc = "compare" /\ content = original_content) => ~ENABLED WriteBack

C6_Witness ==
  /\ ret = "False"
  /\ file_path = "B.swift"
  /\ opened = 0
  /\ converted_files = <<"A.swift">>
  /\ disk["A.swift"].text # Call(<<X>>)

\* C7 (as claimed): a run over an existing root ends with every file of the walk
\* passed and the summary printed, also when a file failed; a run over a missing
\* root touches nothing.
C7_BestEffort ==
  /\ (pc \in {"done", "crashed"} /\ rootExists) => (idx > Len(Walk) /\ summary)
  /\ (pc = "done" /\ ~rootExists) => ~summary

\* C8 (as claimed): a print call whose literal holds an escaped quote that a
\* closing parenthesis follows is left exactly as it was.
C8_AmbiguousCallSkipped ==
  Converted =>
    \A i \in 1..Len(Step1) :
      AmbiguousCall(Step1, i) =>
        SubSeq(content, i, CloseQ(Step1, i, i + 3) + 1)
          = SubSeq(Step1, i, CloseQ(Step1, i, i + 3) + 1)

\* Whether the pattern of rule r matches print("m") for a message m without a
\* quote character.
RuleMatches(r, m) ==
  CASE r.kind = "lead" -> Len(m) > 0 /\ m[1] = r.mark
    [] r.kind = "kw" -> Has(m, r.mark)
    [] r.kind = "plain" -> TRUE
    [] OTHER -> FALSE

\* The macro of the first rule of the table that matches print("m").
FirstMatch(m) ==
  LET S == {k \in 1..Len(conversions) : RuleMatches(conversions[k], m)}
  IN  conversions[CHOOSE k \in S : \A l \in S : k <= l].out

\* C9 (as claimed): every print call with one quote-free literal argument ends
\* as the macro of the first rule of the table that matches its message.
C9_FirstMatchWins ==
  Converted =>
    \A i \in 1..Len(Step1) :
      LiteralCall(Step1, i) => content[i] = FirstMatch(Message(Step1, i))

\* The text t without the declaration lines step 1 inserted.
RECURSIVE WithoutImport(_, _)
WithoutImport(t, i) ==
  IF i > Len(t) THEN << >>
  ELSE IF At(t, i, <<ImpL, NL>>) THEN WithoutImport(t, i + 2)
       ELSE <<t[i]>> \o WithoutImport(t, i + 1)

\* C10: the rewrite passes change nothing but print tokens before ( into one of
\* the four macros, every other token kept in place; step 1 only inserts
\* declaration lines.
C10_OnlyPrintReplaced ==
  Converted =>
    /\ Len(content) = Len(Step1)
    /\ \A i \in 1..Len(Step1) :
         \/ content[i] = Step1[i]
         \/ /\ Step1[i] = P
            /\ At(Step1, i + 1, <<LP>>)
            /\ content[i] \in LogMacros
    /\ IF HasLogMacro(original_content) THEN Step1 = original_content
       ELSE WithoutImport(Step1, 1) = original_content

C10_Witness ==
  /\ Converted
  /\ Step1 # original_content
  /\ content # Step1
  /\ \E i \in 1..Len(Step1) : Step1[i] = P /\ content[i] = LD

====
